---------------------------- MODULE Spec2Model ----------------------------
(***************************************************************************)
(* A model of zoomcutter (src/main.py): the extraction of screen-sharing   *)
(* intervals from chapter markers, their clipping to a trim window, the    *)
(* synthesis of the ffmpeg enable expressions, the layout geometry, and    *)
(* the control flow of main around the two external tools (ffprobe and     *)
(* ffmpeg).                                                                *)
(*                                                                         *)
(* Conventions.  Times are whole seconds.  A Python string is a sequence   *)
(* of one-character strings.  An optional value is a sequence: None is     *)
(* << >> and the value x is << x >>.                                       *)
(***************************************************************************)
EXTENDS Integers, Sequences, FiniteSets, TLC

VARIABLES
    pc,                 \* position in the run
    chapters,           \* chapter records of the slides file
    sharing_intervals,  \* result of get_sharing_intervals
    start_trim,         \* start_seconds (optional number)
    end_trim,           \* end_seconds (optional number)
    cam_width,          \* camera resolution (optional numbers)
    cam_height,
    output_width,       \* explicit output dimensions (optional numbers)
    output_height,
    layout,
    background_color,
    background_image,   \* optional path
    adjusted,           \* intervals after one clipping pass
    reclipped,          \* intervals after clipping the clipped list again
    filter,             \* result of build_filter_complex (optional record)
    start,              \* --start argument (optional string)
    end,                \* --end argument (optional string)
    dimensions,         \* --dimensions argument (optional string)
    dry_run,            \* --dry-run flag
    ffprobe_calls,      \* the files ffprobe was started on, in order
    ffmpeg_calls,       \* number of ffmpeg subprocesses started
    cmd,                \* the ffmpeg command line (optional record)
    error,              \* optional error reported on stderr
    exit_code           \* optional exit status of the run

vars == << pc, chapters, sharing_intervals, start_trim, end_trim, cam_width,
           cam_height, output_width, output_height, layout, background_color,
           background_image, adjusted, reclipped, filter, start, end,
           dimensions, dry_run, ffprobe_calls, ffmpeg_calls, cmd, error,
           exit_code >>

-----------------------------------------------------------------------------
(* Bounds of the model *)

\* longest chapter list given to get_sharing_intervals
MaxChapters == 3
\* largest chapter time, in seconds
MaxChapterTime == 2
\* largest interval time and trim time given to build_filter_complex
MaxTime == 3
\* longest interval list given to build_filter_complex
MaxIntervals == 2
\* largest small canvas width tried
MaxWidth == 5
\* longest chapter list returned by ffprobe in a run of main
MaxMainChapters == 1

-----------------------------------------------------------------------------
(* Python values *)

None == << >>
Some(x) == << x >>
IsNone(o) == o = << >>
Val(o) == o[1]

\* truth value of an optional number: None and 0 are false
Truthy(o) == o # << >> /\ o[1] # 0

\* `o or 0`
OrZero(o) == IF Truthy(o) THEN o[1] ELSE 0

Max(a, b) == IF a >= b THEN a ELSE b
Min(a, b) == IF a <= b THEN a ELSE b

OptionOf(S) == { None } \cup { Some(x) : x \in S }

\* all sequences over S of length at most n
SeqsUpTo(S, n) == UNION { [1..k -> S] : k \in 0..n }

-----------------------------------------------------------------------------
(* Strings *)

DigitChars == << "0", "1", "2", "3", "4", "5", "6", "7", "8", "9" >>

IsDigit(c) == \E i \in 1..10 : DigitChars[i] = c

DigitVal(c) == (CHOOSE i \in 1..10 : DigitChars[i] = c) - 1

\* int(s) succeeds on a non-empty string of digits
IsInt(s) == Len(s) > 0 /\ \A i \in 1..Len(s) : IsDigit(s[i])

RECURSIVE ToInt(_)
ToInt(s) ==
    IF Len(s) = 0 THEN 0
    ELSE 10 * ToInt(SubSeq(s, 1, Len(s) - 1)) + DigitVal(s[Len(s)])

\* needle in haystack
Contains(haystack, needle) ==
    \E i \in 1..(Len(haystack) - Len(needle) + 1) :
        SubSeq(haystack, i, i + Len(needle) - 1) = needle

\* s.split(sep) for a one-character separator
RECURSIVE Split(_, _)
Split(s, sep) ==
    IF \A i \in 1..Len(s) : s[i] # sep THEN << s >>
    ELSE LET k == CHOOSE i \in 1..Len(s) :
                      s[i] = sep /\ \A j \in 1..(i - 1) : s[j] # sep
         IN << SubSeq(s, 1, k - 1) >> \o Split(SubSeq(s, k + 1, Len(s)), sep)

LowerChar(c) ==
    CASE c = "X" -> "x"
      [] c = "P" -> "p"
      [] c = "S" -> "s"
      [] c = "I" -> "i"
      [] OTHER -> c

Lower(s) == [i \in 1..Len(s) |-> LowerChar(s[i])]

RECURSIVE Strip(_)
Strip(s) ==
    IF Len(s) > 0 /\ s[1] = " " THEN Strip(Tail(s))
    ELSE IF Len(s) > 0 /\ s[Len(s)] = " " THEN Strip(SubSeq(s, 1, Len(s) - 1))
    ELSE s

-----------------------------------------------------------------------------
(* get_sharing_intervals *)

StartToken ==
    << "S", "h", "a", "r", "i", "n", "g", " ", "S", "t", "a", "r", "t", "e", "d" >>

StopToken ==
    << "S", "h", "a", "r", "i", "n", "g", " ", "S", "t", "o", "p", "p", "e", "d" >>

\* float(s) on a string of whole seconds, "5" or "5.0": the strings float()
\* accepts, and their value
IsFloat(s) ==
    LET p == Split(s, ".")
    IN /\ Len(p) <= 2
       /\ IsInt(p[1])
       /\ Len(p) = 2 => \A i \in 1..Len(p[2]) : p[2][i] = "0"

Float(s) == ToInt(Split(s, ".")[1])

Interval(s, e) == [start |-> s, end |-> e]

\* a variant that leaves sharing_start set after a stop marker
ScanChapter_keepsStart(st, chapter) ==
    LET title == chapter.title
        start_time == Float(chapter.start_time)
    IN IF Contains(title, StartToken)
       THEN [intervals |-> st.intervals, sharing_start |-> Some(start_time)]
       ELSE IF Contains(title, StopToken) /\ ~IsNone(st.sharing_start)
       THEN [intervals |-> Append(st.intervals,
                                  Interval(Val(st.sharing_start), Some(start_time))),
             sharing_start |-> st.sharing_start]
       ELSE st

\* the loop body: one chapter, from the state (intervals, sharing_start)
ScanChapter(st, chapter) ==
    LET title == chapter.title
        start_time == Float(chapter.start_time)
    IN IF Contains(title, StartToken)
       THEN [intervals |-> st.intervals, sharing_start |-> Some(start_time)]
       ELSE IF Contains(title, StopToken) /\ ~IsNone(st.sharing_start)
       THEN [intervals |-> Append(st.intervals,
                                  Interval(Val(st.sharing_start), Some(start_time))),
             sharing_start |-> None]
       ELSE st

RECURSIVE ScanChapters(_, _)
ScanChapters(st, cs) ==
    IF cs = << >> THEN st ELSE ScanChapters(ScanChapter(st, Head(cs)), Tail(cs))

\* a variant without the open-ended interval of a trailing start
GetSharingIntervals_dropsOpen(cs) ==
    ScanChapters([intervals |-> << >>, sharing_start |-> None], cs).intervals

GetSharingIntervals(cs) ==
    LET final == ScanChapters([intervals |-> << >>, sharing_start |-> None], cs)
    IN IF ~IsNone(final.sharing_start)
       THEN Append(final.intervals, Interval(Val(final.sharing_start), None))
       ELSE final.intervals

-----------------------------------------------------------------------------
(* build_filter_complex: clipping of the intervals to the trim window *)

\* a variant that subtracts the boundary from an end beyond it, where the code
\* replaces the end by the boundary
AdjustInterval_shiftsEnd(iv, st, et) ==
    LET s1 == IF Truthy(st) THEN Max(0, iv.start - Val(st)) ELSE iv.start
        e1 == IF Truthy(st) /\ Truthy(iv.end)
              THEN Some(Val(iv.end) - Val(st)) ELSE iv.end
    IN IF Truthy(et) /\ s1 >= Val(et) - OrZero(st) THEN << >>
       ELSE IF Truthy(e1) /\ Val(e1) <= 0 THEN << >>
       ELSE LET e2 == IF Truthy(et) /\ IsNone(e1)
                      THEN Some(Val(et) - OrZero(st))
                      ELSE IF Truthy(et) /\ Val(e1) > Val(et) - OrZero(st)
                      THEN Some(Val(e1) - (Val(et) - OrZero(st)))
                      ELSE e1
            IN << Interval(s1, e2) >>

\* one pass of the loop body: the empty list for a skipped interval

AdjustInterval(iv, st, et) ==
    LET s1 == IF Truthy(st) THEN Max(0, iv.start - Val(st)) ELSE iv.start
        e1 == IF Truthy(st) /\ Truthy(iv.end)
              THEN Some(Val(iv.end) - Val(st)) ELSE iv.end
    IN IF Truthy(et) /\ s1 >= Val(et) - OrZero(st) THEN << >>
       ELSE IF Truthy(e1) /\ Val(e1) <= 0 THEN << >>
       ELSE LET e2 == IF Truthy(et) /\ (IsNone(e1) \/ Val(e1) > Val(et) - OrZero(st))
                      THEN Some(Val(et) - OrZero(st)) ELSE e1
            IN << Interval(s1, e2) >>

RECURSIVE AdjustAll(_, _, _)
AdjustAll(ivs, st, et) ==
    IF ivs = << >> THEN << >>
    ELSE AdjustInterval(Head(ivs), st, et) \o AdjustAll(Tail(ivs), st, et)

\* lines 152-173: the list build_filter_complex works on afterwards
AdjustIntervals(ivs, st, et) ==
    IF Truthy(st) \/ Truthy(et) THEN AdjustAll(ivs, st, et) ELSE ivs

-----------------------------------------------------------------------------
(* build_filter_complex: the enable expressions *)

\* the terms of an enable expression; the bound of lt is None for 'inf'
Lt(x) == [op |-> "lt", a |-> x, b |-> None]
Gte(x) == [op |-> "gte", a |-> Some(x), b |-> None]
Between(lo, hi) == [op |-> "between", a |-> Some(lo), b |-> Some(hi)]

SpeakerLead(ivs) ==
    IF ivs = << >> THEN << Lt(None) >>
    ELSE IF ivs[1].start > 0 THEN << Lt(Some(ivs[1].start)) >>
    ELSE << >>

SpeakerAfter(ivs, i) ==
    IF IsNone(ivs[i].end) THEN << >>
    ELSE IF i + 1 <= Len(ivs)
    THEN << Between(Val(ivs[i].end), ivs[i + 1].start) >>
    ELSE << Gte(Val(ivs[i].end)) >>

RECURSIVE SpeakerTail(_, _)
SpeakerTail(ivs, i) ==
    IF i > Len(ivs) THEN << >>
    ELSE SpeakerAfter(ivs, i) \o SpeakerTail(ivs, i + 1)

SpeakerEnable(ivs) == SpeakerLead(ivs) \o SpeakerTail(ivs, 1)

SidebysideTerm(iv) ==
    IF IsNone(iv.end) THEN Gte(iv.start) ELSE Between(iv.start, Val(iv.end))

SidebysideEnable(ivs) == [i \in 1..Len(ivs) |-> SidebysideTerm(ivs[i])]

\* what ffmpeg computes for one term at time t: lt and gte are the strict and
\* the non-strict comparison, between(t,lo,hi) is lo <= t <= hi
EvalTerm(term, t) ==
    CASE term.op = "lt" -> IsNone(term.a) \/ t < Val(term.a)
      [] term.op = "gte" -> t >= Val(term.a)
      [] term.op = "between" -> Val(term.a) <= t /\ t <= Val(term.b)

\* '+'.join(terms), or '0' for no term: non-zero when some term is 1
EvalExpr(terms, t) == \E i \in 1..Len(terms) : EvalTerm(terms[i], t)

-----------------------------------------------------------------------------
(* build_filter_complex: dimensions and layout *)

\* margin of the camera from the corner in the diagonal layout
Margin == 20

FinalWidth(cw, ow) == IF Truthy(ow) THEN Val(ow) ELSE cw

FinalHeight(ch, oh) == IF Truthy(oh) THEN Val(oh) ELSE ch

NeedsCameraScaling(cw, ch, ow, oh) == ~IsNone(ow) /\ ~IsNone(oh)

HasCanvas(bgc, bgi) == ~IsNone(bgi) \/ bgc # "black"

\* the [cam_speaker] branch, lines 238-263
CamSpeaker(cw, ch, ow, oh, bgc, bgi) ==
    LET W == FinalWidth(cw, ow)
        H == FinalHeight(ch, oh)
    IN IF NeedsCameraScaling(cw, ch, ow, oh)
       THEN IF HasCanvas(bgc, bgi)
            THEN [op |-> "scale_pad_overlay", width |-> W, height |-> H]
            ELSE [op |-> "scale_pad", width |-> W, height |-> H]
       ELSE IF HasCanvas(bgc, bgi)
            THEN [op |-> "scale_pad_overlay", width |-> W, height |-> H]
            ELSE [op |-> "copy", width |-> cw, height |-> ch]

HalfWidth(W) == W \div 2

\* the [combined] branch, lines 265-312: left and right are the two regions
Combined(W, H, lay) ==
    IF lay = "diagonal"
    THEN LET slides_width == (W * 72) \div 100
             cam_small_width == (W * 30) \div 100
         IN [op |-> "overlay",
             left |-> [stream |-> "slides", width |-> slides_width],
             right |-> [stream |-> "camera", width |-> cam_small_width],
             cam_x |-> W - cam_small_width - Margin,
             cam_y |-> H - ((cam_small_width * 3) \div 4) - Margin,
             width |-> W]
    ELSE [op |-> "hstack",
          left |-> [stream |-> "slides", width |-> HalfWidth(W)],
          right |-> [stream |-> "camera", width |-> HalfWidth(W)],
          cam_x |-> HalfWidth(W),
          cam_y |-> 0,
          width |-> HalfWidth(W) + HalfWidth(W)]

BuildFilterComplex(ivs, cw, ch, st, et, ow, oh, lay, bgc, bgi) ==
    LET used == AdjustIntervals(ivs, st, et)
        W == FinalWidth(cw, ow)
        H == FinalHeight(ch, oh)
    IN [intervals |-> used,
        speaker_enable |-> SpeakerEnable(used),
        sidebyside_enable |-> SidebysideEnable(used),
        final_width |-> W,
        final_height |-> H,
        needs_camera_scaling |-> NeedsCameraScaling(cw, ch, ow, oh),
        base_canvas |-> HasCanvas(bgc, bgi),
        cam_speaker |-> CamSpeaker(cw, ch, ow, oh, bgc, bgi),
        combined |-> Combined(W, H, lay),
        enable |-> SidebysideEnable(used)]

-----------------------------------------------------------------------------
(* time_to_seconds and parse_dimensions *)

\* [raised |-> TRUE] stands for the ValueError of int() or float()
Returned(v) == [raised |-> FALSE, value |-> v]
Raised == [raised |-> TRUE, value |-> None]

TimeToSeconds(time_str) ==
    IF time_str = << >> THEN Returned(None)
    ELSE LET parts == Split(time_str, ":")
         IN IF Len(parts) = 3
            THEN IF IsInt(parts[1]) /\ IsInt(parts[2]) /\ IsFloat(parts[3])
                 THEN Returned(Some(ToInt(parts[1]) * 3600 + ToInt(parts[2]) * 60
                                    + Float(parts[3])))
                 ELSE Raised
            ELSE IF Len(parts) = 2
            THEN IF IsInt(parts[1]) /\ IsFloat(parts[2])
                 THEN Returned(Some(ToInt(parts[1]) * 60 + Float(parts[2])))
                 ELSE Raised
            ELSE IF IsFloat(parts[1]) THEN Returned(Some(Float(parts[1])))
                 ELSE Raised

\* None, or the pair << width, height >>
ParseDimensions(dim_str) ==
    IF dim_str = << >> THEN None
    ELSE LET d == Lower(Strip(dim_str))
         IN IF Contains(d, << "x" >>)
            THEN LET parts == Split(d, "x")
                 IN IF Len(parts) = 2 /\ IsInt(parts[1]) /\ IsInt(parts[2])
                       /\ ToInt(parts[1]) > 0 /\ ToInt(parts[2]) > 0
                    THEN Some(<< ToInt(parts[1]), ToInt(parts[2]) >>)
                    ELSE None
            ELSE IF Len(d) > 0 /\ d[Len(d)] = "p"
            THEN LET h == SubSeq(d, 1, Len(d) - 1)
                 IN IF IsInt(h) /\ (ToInt(h) * 16) \div 9 > 0 /\ ToInt(h) > 0
                    THEN Some(<< (ToInt(h) * 16) \div 9, ToInt(h) >>)
                    ELSE None
            ELSE None

-----------------------------------------------------------------------------
(* Inputs *)

\* the decimal string ffprobe prints for n whole seconds, n < 100
SecondsStr(n) ==
    (IF n < 10 THEN << DigitChars[n + 1] >>
     ELSE << DigitChars[(n \div 10) + 1], DigitChars[(n % 10) + 1] >>)
    \o << ".", "0" >>

Titles ==
    { << >>,
      Lower(StartToken),
      << "Z", ":", " " >> \o StartToken,
      StopToken,
      StartToken \o << " ", "/", " " >> \o StopToken }

Markers(maxTime) ==
    [title : Titles, start_time : { SecondsStr(n) : n \in 0..maxTime }]

\* bounded intervals, whatever the order of start and end, and open-ended ones
Intervals ==
    { Interval(s, Some(e)) : s \in 0..MaxTime, e \in 0..MaxTime } \cup
    { Interval(s, None) : s \in 0..MaxTime }

Times == 0..(MaxTime + 1)

Widths == 2..MaxWidth \cup { 1920 }
Heights == { 3, 1080 }

TimeArgs == { << >>, << "2" >>, << "0", ":", "0", "1" >>, << "s" >> }

DimensionArgs ==
    { << >>,
      << "4", "x", "3" >>,
      << " ", "5", "X", "3" >>,
      << "3", "p" >>,
      << "0", "x", "5" >>,
      << "b", "o", "g", "u", "s" >> }

MainChapterLists ==
    SeqsUpTo([title : { StartToken, StopToken }, start_time : { SecondsStr(1), SecondsStr(3) }],
             MaxMainChapters)

-----------------------------------------------------------------------------
(* The pure functions, applied to drawn inputs *)

NoRun ==
    /\ start = << >> /\ end = << >> /\ dimensions = << >>
    /\ dry_run = FALSE
    /\ ffprobe_calls = << >> /\ ffmpeg_calls = 0
    /\ cmd = None /\ error = None /\ exit_code = None

NoResults ==
    /\ adjusted = << >> /\ reclipped = None /\ filter = None

DefaultLayout ==
    /\ cam_width = Some(4) /\ cam_height = Some(3)
    /\ output_width = None /\ output_height = None
    /\ layout = "side-by-side"
    /\ background_color = "black" /\ background_image = None

InitExtract ==
    /\ pc = "input"
    /\ chapters \in SeqsUpTo(Markers(MaxChapterTime), MaxChapters)
    /\ sharing_intervals = << >>
    /\ start_trim = None /\ end_trim = None
    /\ DefaultLayout /\ NoResults /\ NoRun

CallGetSharingIntervals ==
    /\ pc = "input"
    /\ sharing_intervals' = GetSharingIntervals(chapters)
    /\ pc' = "extracted"
    /\ UNCHANGED << chapters, start_trim, end_trim, cam_width, cam_height,
                    output_width, output_height, layout, background_color,
                    background_image, adjusted, reclipped, filter, start, end,
                    dimensions, dry_run, ffprobe_calls, ffmpeg_calls, cmd,
                    error, exit_code >>

NextExtract == CallGetSharingIntervals

SpecExtract == InitExtract /\ [][NextExtract]_vars

InitClip ==
    /\ pc = "input"
    /\ chapters = << >>
    /\ sharing_intervals \in SeqsUpTo(Intervals, MaxIntervals)
    /\ start_trim \in OptionOf(0..MaxTime)
    /\ end_trim \in OptionOf(0..MaxTime)
    /\ DefaultLayout /\ NoResults /\ NoRun

\* the clipping step of build_filter_complex on the input list
Clip ==
    /\ pc = "input"
    /\ adjusted' = AdjustIntervals(sharing_intervals, start_trim, end_trim)
    /\ pc' = "clipped"
    /\ UNCHANGED << chapters, sharing_intervals, start_trim, end_trim,
                    cam_width, cam_height, output_width, output_height, layout,
                    background_color, background_image, reclipped, filter,
                    start, end, dimensions, dry_run, ffprobe_calls,
                    ffmpeg_calls, cmd, error, exit_code >>

\* the clipping step again, on its own output and with the same window
ClipAgain ==
    /\ pc = "clipped"
    /\ reclipped' = Some(AdjustIntervals(adjusted, start_trim, end_trim))
    /\ pc' = "reclipped"
    /\ UNCHANGED << chapters, sharing_intervals, start_trim, end_trim,
                    cam_width, cam_height, output_width, output_height, layout,
                    background_color, background_image, adjusted, filter,
                    start, end, dimensions, dry_run, ffprobe_calls,
                    ffmpeg_calls, cmd, error, exit_code >>

CallBuildFilterComplex ==
    /\ pc = "input"
    /\ filter' = Some(BuildFilterComplex(sharing_intervals, Val(cam_width),
                                         Val(cam_height), start_trim, end_trim,
                                         output_width, output_height, layout,
                                         background_color, background_image))
    /\ pc' = "built"
    /\ UNCHANGED << chapters, sharing_intervals, start_trim, end_trim,
                    cam_width, cam_height, output_width, output_height, layout,
                    background_color, background_image, adjusted, reclipped,
                    start, end, dimensions, dry_run, ffprobe_calls,
                    ffmpeg_calls, cmd, error, exit_code >>

NextClip == Clip \/ ClipAgain \/ CallBuildFilterComplex

SpecClip == InitClip /\ [][NextClip]_vars

InitLayout ==
    /\ pc = "input"
    /\ chapters = << >>
    /\ sharing_intervals \in { << >>, << Interval(1, Some(2)) >> }
    /\ start_trim = None /\ end_trim = None
    /\ cam_width \in { Some(w) : w \in Widths }
    /\ cam_height \in { Some(h) : h \in Heights }
    /\ \/ output_width = None /\ output_height = None
       \/ output_width \in { Some(w) : w \in Widths }
          /\ output_height \in { Some(h) : h \in Heights }
    /\ layout \in { "side-by-side", "diagonal" }
    /\ background_color \in { "black", "white" }
    /\ background_image \in { None, Some("bg.png") }
    /\ NoResults /\ NoRun

NextLayout == CallBuildFilterComplex

SpecLayout == InitLayout /\ [][NextLayout]_vars

-----------------------------------------------------------------------------
(* main *)

Init ==
    /\ pc = "main"
    /\ start \in TimeArgs
    /\ end \in TimeArgs
    /\ dimensions \in DimensionArgs
    /\ layout \in { "side-by-side", "diagonal" }
    /\ background_color \in { "black", "white" }
    /\ background_image = None
    /\ dry_run \in BOOLEAN
    /\ chapters = << >> /\ sharing_intervals = << >>
    /\ start_trim = None /\ end_trim = None
    /\ cam_width = None /\ cam_height = None
    /\ output_width = None /\ output_height = None
    /\ ffprobe_calls = << >> /\ ffmpeg_calls = 0
    /\ cmd = None /\ error = None /\ exit_code = None
    /\ NoResults

\* sys.exit(1) after an error message
Exit(kind) ==
    /\ pc' = "exit"
    /\ error' = Some(kind)
    /\ exit_code' = Some(1)

\* get_video_info(camera_file): ffprobe fails, or returns the resolution of the
\* first video stream (None without one)
ProbeCamera ==
    /\ pc = "main"
    /\ ffprobe_calls' = Append(ffprobe_calls, "camera_file")
    /\ \/ /\ Exit("ffprobe")
          /\ UNCHANGED << cam_width, cam_height >>
       \/ /\ \/ cam_width' = None /\ cam_height' = None
             \/ cam_width' \in { Some(w) : w \in { 0, 4, 5 } }
                /\ cam_height' = Some(3)
          /\ pc' = "resolution"
          /\ UNCHANGED << error, exit_code >>
    /\ UNCHANGED << chapters, sharing_intervals, start_trim, end_trim,
                    output_width, output_height, layout, background_color,
                    background_image, adjusted, reclipped, filter, start, end,
                    dimensions, dry_run, ffmpeg_calls, cmd >>

CheckResolution ==
    /\ pc = "resolution"
    /\ IF ~Truthy(cam_width) \/ ~Truthy(cam_height)
       THEN Exit("resolution")
       ELSE pc' = "slides" /\ UNCHANGED << error, exit_code >>
    /\ UNCHANGED << chapters, sharing_intervals, start_trim, end_trim,
                    cam_width, cam_height, output_width, output_height, layout,
                    background_color, background_image, adjusted, reclipped,
                    filter, start, end, dimensions, dry_run, ffprobe_calls,
                    ffmpeg_calls, cmd >>

\* get_video_info(slides_file) and get_sharing_intervals(chapters)
ProbeSlides ==
    /\ pc = "slides"
    /\ ffprobe_calls' = Append(ffprobe_calls, "slides_file")
    /\ \/ /\ Exit("ffprobe")
          /\ UNCHANGED << chapters, sharing_intervals >>
       \/ /\ chapters' \in MainChapterLists
          /\ sharing_intervals' = GetSharingIntervals(chapters')
          /\ pc' = "trim"
          /\ UNCHANGED << error, exit_code >>
    /\ UNCHANGED << start_trim, end_trim, cam_width, cam_height, output_width,
                    output_height, layout, background_color, background_image,
                    adjusted, reclipped, filter, start, end, dimensions,
                    dry_run, ffmpeg_calls, cmd >>

\* start_seconds and end_seconds; a ValueError of time_to_seconds is not caught
ConvertTrim ==
    /\ pc = "trim"
    /\ IF TimeToSeconds(start).raised \/ TimeToSeconds(end).raised
       THEN /\ Exit("ValueError")
            /\ UNCHANGED << start_trim, end_trim >>
       ELSE /\ start_trim' = TimeToSeconds(start).value
            /\ end_trim' = TimeToSeconds(end).value
            /\ pc' = "dimensions"
            /\ UNCHANGED << error, exit_code >>
    /\ UNCHANGED << chapters, sharing_intervals, cam_width, cam_height,
                    output_width, output_height, layout, background_color,
                    background_image, adjusted, reclipped, filter, start, end,
                    dimensions, dry_run, ffprobe_calls, ffmpeg_calls, cmd >>

ResolveDimensions ==
    /\ pc = "dimensions"
    /\ IF dimensions # << >> /\ IsNone(ParseDimensions(dimensions))
       THEN /\ Exit("dimensions")
            /\ UNCHANGED << output_width, output_height >>
       ELSE /\ IF dimensions # << >>
               THEN /\ output_width' = Some(Val(ParseDimensions(dimensions))[1])
                    /\ output_height' = Some(Val(ParseDimensions(dimensions))[2])
               ELSE UNCHANGED << output_width, output_height >>
            /\ pc' = "filter"
            /\ UNCHANGED << error, exit_code >>
    /\ UNCHANGED << chapters, sharing_intervals, start_trim, end_trim,
                    cam_width, cam_height, layout, background_color,
                    background_image, adjusted, reclipped, filter, start, end,
                    dimensions, dry_run, ffprobe_calls, ffmpeg_calls, cmd >>

\* build_filter_complex and the ffmpeg command line around its result
BuildCommand ==
    /\ pc = "filter"
    /\ filter' = Some(BuildFilterComplex(sharing_intervals, Val(cam_width),
                                         Val(cam_height), start_trim, end_trim,
                                         output_width, output_height, layout,
                                         background_color, background_image))
    /\ cmd' = Some([ss |-> start,
                    t |-> IF end # << >> /\ Truthy(start_trim)
                          THEN Some(Val(end_trim) - Val(start_trim)) ELSE None,
                    to |-> IF end # << >> /\ ~Truthy(start_trim)
                           THEN end ELSE << >>,
                    filter_complex |-> Val(filter')])
    /\ pc' = "command"
    /\ UNCHANGED << chapters, sharing_intervals, start_trim, end_trim,
                    cam_width, cam_height, output_width, output_height, layout,
                    background_color, background_image, adjusted, reclipped,
                    start, end, dimensions, dry_run, ffprobe_calls,
                    ffmpeg_calls, error, exit_code >>

\* --dry-run: the command is printed and main returns
DryRun ==
    /\ pc = "command"
    /\ dry_run
    /\ pc' = "exit"
    /\ exit_code' = Some(0)
    /\ UNCHANGED << chapters, sharing_intervals, start_trim, end_trim,
                    cam_width, cam_height, output_width, output_height, layout,
                    background_color, background_image, adjusted, reclipped,
                    filter, start, end, dimensions, ffprobe_calls,
                    ffmpeg_calls, cmd, error, dry_run >>

\* a variant that runs ffmpeg whatever --dry-run says
RunFfmpeg_ignoresDryRun ==
    /\ pc = "command"
    /\ ffmpeg_calls' = ffmpeg_calls + 1
    /\ \/ pc' = "exit" /\ exit_code' = Some(0) /\ UNCHANGED error
       \/ Exit("ffmpeg")
    /\ UNCHANGED << chapters, sharing_intervals, start_trim, end_trim,
                    cam_width, cam_height, output_width, output_height, layout,
                    background_color, background_image, adjusted, reclipped,
                    filter, start, end, dimensions, ffprobe_calls, cmd,
                    dry_run >>

\* a variant that starts ffmpeg again after it failed
RunFfmpeg_retries ==
    /\ pc = "command"
    /\ ~dry_run
    /\ ffmpeg_calls < 3
    /\ ffmpeg_calls' = ffmpeg_calls + 1
    /\ \/ pc' = "exit" /\ exit_code' = Some(0) /\ UNCHANGED error
       \/ UNCHANGED << pc, error, exit_code >>
    /\ UNCHANGED << chapters, sharing_intervals, start_trim, end_trim,
                    cam_width, cam_height, output_width, output_height, layout,
                    background_color, background_image, adjusted, reclipped,
                    filter, start, end, dimensions, ffprobe_calls, cmd,
                    dry_run >>

\* subprocess.run(cmd, check=True): ffmpeg succeeds or fails
RunFfmpeg ==
    /\ pc = "command"
    /\ ~dry_run
    /\ ffmpeg_calls' = ffmpeg_calls + 1
    /\ \/ pc' = "exit" /\ exit_code' = Some(0) /\ UNCHANGED error
       \/ Exit("ffmpeg")
    /\ UNCHANGED << chapters, sharing_intervals, start_trim, end_trim,
                    cam_width, cam_height, output_width, output_height, layout,
                    background_color, background_image, adjusted, reclipped,
                    filter, start, end, dimensions, ffprobe_calls, cmd,
                    dry_run >>

Next ==
    \/ ProbeCamera
    \/ CheckResolution
    \/ ProbeSlides
    \/ ConvertTrim
    \/ ResolveDimensions
    \/ BuildCommand
    \/ DryRun
    \/ RunFfmpeg

Spec == Init /\ [][Next]_vars

-----------------------------------------------------------------------------
(* Properties of get_sharing_intervals *)

\* the state machine {Idle, Pending(startTime)} over the markers
Idle == [mode |-> "Idle", startTime |-> 0]
Pending(t) == [mode |-> "Pending", startTime |-> t]

FoldStep(acc, marker) ==
    LET thisTime == Float(marker.start_time)
    IN IF Contains(marker.title, StartToken)
       THEN [state |-> Pending(thisTime), out |-> acc.out]
       ELSE IF Contains(marker.title, StopToken)
       THEN IF acc.state.mode = "Pending"
            THEN [state |-> Idle,
                  out |-> acc.out \o << Interval(acc.state.startTime, Some(thisTime)) >>]
            ELSE acc
       ELSE acc

\* the fold over the first k markers
RECURSIVE FoldLeft(_, _)
FoldLeft(markers, k) ==
    IF k = 0 THEN [state |-> Idle, out |-> << >>]
    ELSE FoldStep(FoldLeft(markers, k - 1), markers[k])

FoldMarkers(markers) ==
    LET acc == FoldLeft(markers, Len(markers))
    IN IF acc.state.mode = "Pending"
       THEN acc.out \o << Interval(acc.state.startTime, None) >>
       ELSE acc.out

\* C3: get_sharing_intervals returns what the left fold over the markers with
\* state {Idle, Pending(startTime)} returns: a start marker sets Pending and
\* emits nothing, a stop marker emits (pendingStart, thisTime) when Pending and
\* changes nothing when Idle, any other marker changes nothing, and a Pending
\* left at the end emits one open-ended interval; no marker gives no interval.
C3_ExtractionIsFold ==
    pc = "extracted" =>
        /\ sharing_intervals = FoldMarkers(chapters)
        /\ chapters = << >> => sharing_intervals = << >>

\* a closed interval followed by the open-ended interval of a trailing start
C3_Witness ==
    /\ pc = "extracted"
    /\ Len(chapters) = 3
    /\ Len(sharing_intervals) = 2
    /\ ~IsNone(sharing_intervals[1].end)
    /\ IsNone(sharing_intervals[2].end)

NonDecreasingTimes(cs) ==
    \A i \in 1..(Len(cs) - 1) : Float(cs[i].start_time) <= Float(cs[i + 1].start_time)

\* C4: for markers with non-decreasing times the intervals returned by
\* get_sharing_intervals have non-decreasing starts, each interval starts at or
\* after the end of the one before it, and only the last one can be open-ended.
C4_ExtractedOrdered ==
    pc = "extracted" /\ NonDecreasingTimes(chapters) =>
        \A i \in 1..Len(sharing_intervals) :
            /\ ~IsNone(sharing_intervals[i].end) =>
                   sharing_intervals[i].start <= Val(sharing_intervals[i].end)
            /\ i < Len(sharing_intervals) =>
                   /\ ~IsNone(sharing_intervals[i].end)
                   /\ Val(sharing_intervals[i].end) <= sharing_intervals[i + 1].start
                   /\ sharing_intervals[i].start <= sharing_intervals[i + 1].start

\* markers in time order, sharing restarted at the instant it stopped
C4_Witness ==
    /\ pc = "extracted"
    /\ NonDecreasingTimes(chapters)
    /\ Len(sharing_intervals) = 2
    /\ sharing_intervals[1].start < sharing_intervals[2].start
    /\ sharing_intervals[1].end = Some(sharing_intervals[2].start)

-----------------------------------------------------------------------------
(* Properties of build_filter_complex *)

Bounded(iv) == ~IsNone(iv.end)

\* chronologically ordered, non-overlapping, at most the last open-ended
WellFormed(ivs) ==
    \A i \in 1..Len(ivs) :
        /\ ivs[i].start >= 0
        /\ Bounded(ivs[i]) => ivs[i].start < Val(ivs[i].end)
        /\ i < Len(ivs) =>
               Bounded(ivs[i]) /\ Val(ivs[i].end) <= ivs[i + 1].start

\* t lies in the half-open range of the interval
Covers(iv, t) == iv.start <= t /\ (Bounded(iv) => t < Val(iv.end))

\* C1: for every well-formed interval list that build_filter_complex uses after
\* clipping and every time t >= 0, exactly one of the speaker predicate and the
\* combined predicate is active at t, interval starts and ends included.
C1_ExactlyOneActive ==
    pc = "built" /\ WellFormed(Val(filter).intervals) =>
        \A t \in Times :
            EvalExpr(Val(filter).speaker_enable, t)
                # EvalExpr(Val(filter).sidebyside_enable, t)

\* C2: the enable expression of the terminal overlay is true at t exactly when
\* some interval contains t as a half-open range (start <= t < end, or
\* start <= t for an open end); it is false at a bounded interval's end, and
\* never true without intervals.
C2_EnableIsHalfOpen ==
    pc = "built" =>
        \A t \in Times :
            EvalExpr(Val(filter).enable, t) <=>
                \E i \in 1..Len(Val(filter).intervals) :
                    Covers(Val(filter).intervals[i], t)

\* C5 as stated: clipping the clipped list again with the same window returns
\* it unchanged, for every interval list and every window.
C5_ClipIdempotent ==
    pc = "reclipped" => Val(reclipped) = adjusted

\* C5, amended: when startTrim is absent or zero, clipping the clipped list
\* again with the same window returns it unchanged.
C5_ClipIdempotentWithoutStartTrim ==
    pc = "reclipped" /\ ~Truthy(start_trim) => Val(reclipped) = adjusted

\* an end clamped to the boundary by the first pass and left alone by the second
C5_Witness ==
    /\ pc = "reclipped"
    /\ ~Truthy(start_trim)
    /\ Truthy(end_trim)
    /\ adjusted # << >>
    /\ adjusted # sharing_intervals
    /\ Val(reclipped) = adjusted

\* the rule of the clipping step: B is endTrim - startTrim, absent without endTrim
ClaimedBoundary(st, et) == IF IsNone(et) THEN None ELSE Some(Val(et) - OrZero(st))

ClaimedEnd(iv, st, et) ==
    LET B == ClaimedBoundary(st, et)
    IN IF IsNone(iv.end) THEN B
       ELSE IF IsNone(B) THEN Some(Val(iv.end) - OrZero(st))
       ELSE Some(Min(Val(iv.end) - OrZero(st), Val(B)))

ClaimedKeep(iv, st, et) ==
    /\ IsNone(ClaimedBoundary(st, et))
           \/ iv.start - OrZero(st) < Val(ClaimedBoundary(st, et))
    /\ IsNone(ClaimedEnd(iv, st, et)) \/ Val(ClaimedEnd(iv, st, et)) > 0

RECURSIVE ClaimedClip(_, _, _)
ClaimedClip(ivs, st, et) ==
    IF ivs = << >> THEN << >>
    ELSE (IF ClaimedKeep(Head(ivs), st, et)
          THEN << Interval(Max(0, Head(ivs).start - OrZero(st)),
                           ClaimedEnd(Head(ivs), st, et)) >>
          ELSE << >>)
         \o ClaimedClip(Tail(ivs), st, et)

\* a window given by positive times, over intervals with start < end
PlainClipInput ==
    /\ IsNone(start_trim) \/ Val(start_trim) > 0
    /\ IsNone(end_trim) \/ Val(end_trim) > 0
    /\ \A i \in 1..Len(sharing_intervals) :
           Bounded(sharing_intervals[i]) =>
               sharing_intervals[i].start < Val(sharing_intervals[i].end)

\* C8: the clipping step keeps an interval exactly when its re-based start is
\* below the boundary B and its clamped end is above 0, with start
\* max(0, start - startTrim) and end min(end - startTrim, B), in input order;
\* so no kept bounded interval has end <= 0 or start >= end.
C8_ClipMatchesRule ==
    pc = "clipped" /\ PlainClipInput =>
        /\ adjusted = ClaimedClip(sharing_intervals, start_trim, end_trim)
        /\ \A i \in 1..Len(adjusted) :
               Bounded(adjusted[i]) =>
                   Val(adjusted[i].end) > 0 /\ adjusted[i].start < Val(adjusted[i].end)

SideBySide == layout = "side-by-side"

\* C7: in side-by-side layout the slides region is floor(W/2) wide, the camera
\* region is W - floor(W/2) wide, and the combined stream is W wide, for every
\* canvas width W > 0.
C7_HalvesFillCanvas ==
    pc = "built" /\ SideBySide =>
        LET W == Val(filter).final_width
            c == Val(filter).combined
        IN /\ c.left.stream = "slides" /\ c.left.width = W \div 2
           /\ c.right.stream = "camera" /\ c.right.width = W - (W \div 2)
           /\ c.width = W

DiffersFromNative ==
    /\ ~IsNone(output_width) /\ ~IsNone(output_height)
    /\ Val(output_width) # Val(cam_width) \/ Val(output_height) # Val(cam_height)

PlainBackground == background_color = "black" /\ IsNone(background_image)

\* C9: the scaling-needed flag is true exactly when explicit output dimensions
\* are given and differ from the camera's native ones, and the speaker branch
\* is the passthrough (copy) exactly when they do not differ; stated here for
\* the default background, where no canvas is laid under the camera.
C9_ScalingOnlyWhenDifferent ==
    pc = "built" /\ PlainBackground =>
        /\ Val(filter).needs_camera_scaling <=> DiffersFromNative
        /\ Val(filter).cam_speaker.op = "copy" <=> ~DiffersFromNative

-----------------------------------------------------------------------------
(* Properties of main *)

FatalBeforeEncode == { Some("ffprobe"), Some("resolution"), Some("dimensions") }

\* C6: ffmpeg is invoked only after the filter graph is built and put in the
\* command, never with --dry-run, and never after a failed ffprobe, an
\* undetected camera resolution or an invalid dimension string: each of these
\* ends the run with no filter graph built and no ffmpeg started.
C6_EncoderOnlyAfterBuild ==
    /\ ffmpeg_calls > 0 =>
           /\ ~IsNone(filter)
           /\ ~IsNone(cmd)
           /\ Val(cmd).filter_complex = Val(filter)
           /\ ~dry_run
           /\ error \notin FatalBeforeEncode
    /\ error \in FatalBeforeEncode =>
           /\ pc = "exit"
           /\ exit_code = Some(1)
           /\ IsNone(filter)
           /\ ffmpeg_calls = 0
    /\ dry_run => ffmpeg_calls = 0

\* a run that built the graph and then ran ffmpeg to success
C6_Witness ==
    /\ pc = "exit"
    /\ ffmpeg_calls = 1
    /\ ~IsNone(filter)
    /\ exit_code = Some(0)

\* C10 as stated: ffprobe is invoked at most once and ffmpeg at most once.
C10_EachToolAtMostOnce ==
    Len(ffprobe_calls) <= 1 /\ ffmpeg_calls <= 1

\* C10, amended: ffprobe is invoked at most once per input file, on the camera
\* file and then on the slides file (at most twice in a run), and ffmpeg at
\* most once.
C10_ProbeOncePerFile ==
    /\ ffprobe_calls \in { << >>, << "camera_file" >>,
                           << "camera_file", "slides_file" >> }
    /\ ffmpeg_calls <= 1

\* a run that probed both files and then ran ffmpeg once, which failed
C10_Witness ==
    /\ ffprobe_calls = << "camera_file", "slides_file" >>
    /\ ffmpeg_calls = 1
    /\ error = Some("ffmpeg")

=============================================================================
